---------------------------- MODULE Spec2Model ----------------------------
(***************************************************************************)
(* AutoTrustRoot: the trust-root assembler.                                *)
(*                                                                         *)
(* Two variants of one program are modelled:                               *)
(*   "inprocess" - src/unnamed/part_000 (crypto/x509, encoding/pem,        *)
(*                 gopkg.in/yaml.v3, patches the output file in place);    *)
(*   "external"  - src/.github/actions/assemble-offline-trustroot/main.go  *)
(*                 (openssl and yq subprocesses, patches a temporary file  *)
(*                 and copies it to the output file at the end).           *)
(*                                                                         *)
(* Strings are sequences of byte values (ASCII codes).  Untyped JSON/YAML  *)
(* trees are tagged records.  Both variants are run, one after the other,  *)
(* on the same inputs and on separate copies of the file system, so that   *)
(* their final results can be compared in one state.                       *)
(***************************************************************************)
EXTENDS Integers, Sequences, FiniteSets, TLC

(***************************************************************************)
(* Bounds of the model.                                                    *)
(***************************************************************************)
\* entries of certificateAuthorities in a generated trusted root
MaxCA == 2
\* entries of timestampAuthorities in a generated trusted root
MaxTSA == 1
\* certificates in a generated certificate chain
MaxChain == 2
\* largest index handed to the patcher when it is exercised on its own
MaxIndex == 2

(***************************************************************************)
(* Untyped trees, as encoding/json and yaml.v3 decode them into            *)
(* interface{}: nil, string, []interface{}, map[string]interface{} and     *)
(* (yaml.v3 only, for a mapping with a key that is not a string)           *)
(* map[interface{}]interface{}.                                            *)
(***************************************************************************)
Null == [t |-> "null"]
Str(s) == [t |-> "str", v |-> s]
List(l) == [t |-> "seq", v |-> l]
Map(f) == [t |-> "smap", v |-> f]
GenMap(f) == [t |-> "gmap", v |-> f]

EmptyFcn == [k \in {} |-> Null]
EmptyMap == Map(EmptyFcn)

\* v.(map[string]interface{})
IsStringMap(x) == x.t = "smap"
\* v.([]interface{})
IsList(x) == x.t = "seq"
\* v.(string)
IsString(x) == x.t = "str"
\* a YAML mapping, whatever its keys
IsMapping(x) == x.t \in {"smap", "gmap"}

\* m[key] of a Go map: the zero value (nil) when the key is absent
Get(m, key) == IF key \in DOMAIN m.v THEN m.v[key] ELSE Null
\* m[key] = val
Put(m, key, val) ==
    [m EXCEPT !.v = [k \in (DOMAIN m.v) \cup {key} |-> IF k = key THEN val ELSE m.v[k]]]

(***************************************************************************)
(* encoding/base64, StdEncoding (RFC 4648 alphabet, '=' padding).          *)
(***************************************************************************)
B64Char(n) ==
    IF n < 26 THEN 65 + n
    ELSE IF n < 52 THEN 97 + (n - 26)
    ELSE IF n < 62 THEN 48 + (n - 52)
    ELSE IF n = 62 THEN 43 ELSE 47

B64Val(c) ==
    IF c >= 65 /\ c <= 90 THEN c - 65
    ELSE IF c >= 97 /\ c <= 122 THEN c - 97 + 26
    ELSE IF c >= 48 /\ c <= 57 THEN c - 48 + 52
    ELSE IF c = 43 THEN 62
    ELSE IF c = 47 THEN 63 ELSE -1


\* the byte at position n (from 1), zero past the end
ByteAt(b, n) == IF n <= Len(b) THEN b[n] ELSE 0

\* EncodeToString: every 3 bytes give 4 characters, the last group is padded
EncodeToString(b) ==
    [k \in 1..(4 * ((Len(b) + 2) \div 3)) |->
        LET g == (k - 1) \div 4
            r == (k - 1) % 4
            b1 == ByteAt(b, 3 * g + 1)
            b2 == ByteAt(b, 3 * g + 2)
            b3 == ByteAt(b, 3 * g + 3)
        IN  IF r = 0 THEN B64Char(b1 \div 4)
            ELSE IF r = 1 THEN B64Char((b1 % 4) * 16 + b2 \div 16)
            ELSE IF r = 2 THEN (IF 3 * g + 2 > Len(b) THEN 61
                                ELSE B64Char((b2 % 16) * 4 + b3 \div 64))
            ELSE (IF 3 * g + 3 > Len(b) THEN 61 ELSE B64Char(b3 % 64))]

DecodeError == [ok |-> FALSE, bytes |-> <<>>]

\* the number of padding characters at the end of a text of whole quanta
Padding(s) ==
    IF Len(s) = 0 \/ s[Len(s)] # 61 THEN 0
    ELSE IF s[Len(s) - 1] # 61 THEN 1 ELSE 2

\* the decoding of a text without line breaks: whole quanta of four
\* characters of the alphabet, the last one padded with one or two '='
DecodeQuanta(s) ==
    IF Len(s) % 4 # 0 THEN DecodeError
    ELSE IF \E k \in 1..(Len(s) - Padding(s)) : B64Val(s[k]) < 0 THEN DecodeError
    ELSE [ok |-> TRUE,
          bytes |-> [n \in 1..(3 * (Len(s) \div 4) - Padding(s)) |->
                        LET g == (n - 1) \div 3
                            r == (n - 1) % 3
                            q1 == B64Val(s[4 * g + 1])
                            q2 == B64Val(s[4 * g + 2])
                            q3 == B64Val(s[4 * g + 3])
                            q4 == B64Val(s[4 * g + 4])
                        IN  IF r = 0 THEN q1 * 4 + q2 \div 16
                            ELSE IF r = 1 THEN (q2 % 16) * 16 + q3 \div 4
                            ELSE (q3 % 4) * 64 + q4]]

IsNewline(c) == c = 10 \/ c = 13

\* StdEncoding.DecodeString: '\r' and '\n' are ignored, padding is required
DecodeString(s) == DecodeQuanta(SelectSeq(s, LAMBDA c : ~IsNewline(c)))

(***************************************************************************)
(* encoding/pem and crypto/x509.                                           *)
(***************************************************************************)
\* "-----BEGIN CERTIFICATE-----\n"
PemBegin ==
    << 45, 45, 45, 45, 45, 66, 69, 71, 73, 78, 32,
       67, 69, 82, 84, 73, 70, 73, 67, 65, 84, 69, 45, 45, 45, 45, 45, 10 >>
\* "-----END CERTIFICATE-----\n"
PemEnd ==
    << 45, 45, 45, 45, 45, 69, 78, 68, 32,
       67, 69, 82, 84, 73, 70, 73, 67, 65, 84, 69, 45, 45, 45, 45, 45, 10 >>

\* the base64 body, broken into lines of 64 characters
RECURSIVE BreakLines(_)
BreakLines(s) ==
    IF Len(s) = 0 THEN <<>>
    ELSE IF Len(s) <= 64 THEN s \o << 10 >>
    ELSE SubSeq(s, 1, 64) \o << 10 >> \o BreakLines(SubSeq(s, 65, Len(s)))

\* pem.Encode of a block of type CERTIFICATE without headers
PemEncode(der) == PemBegin \o BreakLines(EncodeToString(der)) \o PemEnd

\* x509.ParseCertificate, abstracted to the outermost ASN.1 layer: a
\* SEQUENCE tag and a short-form length that covers the rest of the input
ParseCertificate(der) ==
    /\ Len(der) >= 3
    /\ der[1] = 48
    /\ der[2] = Len(der) - 2


(***************************************************************************)
(* Files.  A file holds text; the text is modelled by the tree it parses   *)
(* to and by whether it is the text yaml.Marshal emits for that tree       *)
(* (canon) or some other text of the same tree (comments, key order).      *)
(* Garbage is text that does not parse at all.                             *)
(***************************************************************************)
NoFile == [t |-> "nofile"]
File(canon, tree) == [t |-> "file", canon |-> canon, tree |-> tree]
Garbage == [t |-> "garbage"]
Exists(f) == f.t = "file"

\* yaml.Marshal(root): the canonical text of the tree
Marshal(tree) == File(TRUE, tree)

\* yaml.Unmarshal(data, &root) with root a map[string]interface{}: an empty
\* or null document leaves the nil map, a string-keyed mapping fills it, a
\* document whose root is a sequence or a scalar is an error
Unmarshal(f) ==
    IF f.tree.t = "null" THEN [ok |-> TRUE, root |-> EmptyMap]
    ELSE IF f.tree.t = "smap" THEN [ok |-> TRUE, root |-> f.tree]
    ELSE [ok |-> FALSE, root |-> EmptyMap]

(***************************************************************************)
(* updateYAML of the in-process variant (yaml.v3).                         *)
(***************************************************************************)
\* make([]interface{}, n): n nil elements
MakeList(n) == [j \in 1..n |-> Null]

\* a slip: the sequence is grown with nil elements, as make() fills it
GrowListNil(l, index) ==
    IF Len(l) <= index THEN l \o [j \in 1..(index + 1 - Len(l)) |-> Null] ELSE l

\* a slip: an element is appended on every call, needed or not
GrowListAlways(l, index) ==
    IF Len(l) <= index
    THEN l \o [j \in 1..(index + 1 - Len(l)) |-> EmptyMap]
    ELSE l \o << EmptyMap >>

\* for len(authorityList) <= index { append(authorityList, map{}) }
GrowList(l, index) ==
    IF Len(l) <= index THEN l \o [j \in 1..(index + 1 - Len(l)) |-> EmptyMap] ELSE l

\* the subject mapping written into an entry
Subject(organization, commonName) ==
    Map([organization |-> Str(organization), commonName |-> Str(commonName)])

\* entry["subject"] = ...; entry["uri"] = uri; entry["certChain"] = certChain
SetFields(entry, organization, commonName, uri, certChain) ==
    Put(Put(Put(entry, "subject", Subject(organization, commonName)),
            "uri", Str(uri)),
        "certChain", Str(certChain))

\* the authority list after the patch of one entry
PatchList(old, index, organization, commonName, uri, certChain) ==
    LET authorityList == IF IsList(old) THEN old.v ELSE MakeList(index + 1)
        grown == GrowList(authorityList, index)
        entry == IF IsStringMap(grown[index + 1]) THEN grown[index + 1] ELSE EmptyMap
    IN  [grown EXCEPT ![index + 1] =
            SetFields(entry, organization, commonName, uri, certChain)]

\* a slip: a missing spec or sigstoreKeys section is created instead of
\* being reported
UpdateYAMLCreating(file, authority, index, organization, commonName, uri, certChain) ==
    IF ~Exists(file) THEN [err |-> TRUE, file |-> file]
    ELSE
    LET parsed == Unmarshal(file)
        root == parsed.root
        spec == IF IsStringMap(Get(root, "spec")) THEN Get(root, "spec") ELSE EmptyMap
        sigstoreKeys == IF IsStringMap(Get(spec, "sigstoreKeys"))
                        THEN Get(spec, "sigstoreKeys") ELSE EmptyMap
    IN  IF ~parsed.ok THEN [err |-> TRUE, file |-> file]
        ELSE
        LET list == PatchList(Get(sigstoreKeys, authority), index,
                              organization, commonName, uri, certChain)
            newKeys == Put(sigstoreKeys, authority, List(list))
            newSpec == Put(spec, "sigstoreKeys", newKeys)
            newRoot == Put(root, "spec", newSpec)
        IN  [err |-> FALSE, file |-> Marshal(newRoot)]

\* the result of updateYAML: whether it returned an error, and the file
UpdateYAML(file, authority, index, organization, commonName, uri, certChain) ==
    IF ~Exists(file) THEN [err |-> TRUE, file |-> file]
    ELSE
    LET parsed == Unmarshal(file)
        root == parsed.root
        spec == Get(root, "spec")
        sigstoreKeys == Get(spec, "sigstoreKeys")
    IN  IF ~parsed.ok THEN [err |-> TRUE, file |-> file]
        ELSE IF ~IsStringMap(spec) THEN [err |-> TRUE, file |-> file]
        ELSE IF ~IsStringMap(sigstoreKeys) THEN [err |-> TRUE, file |-> file]
        ELSE
        LET list == PatchList(Get(sigstoreKeys, authority), index,
                              organization, commonName, uri, certChain)
            newKeys == Put(sigstoreKeys, authority, List(list))
            newSpec == Put(spec, "sigstoreKeys", newKeys)
            newRoot == Put(root, "spec", newSpec)
        IN  [err |-> FALSE, file |-> Marshal(newRoot)]

(***************************************************************************)
(* updateYAML of the external variant: five yq assignments to paths under  *)
(* .spec.sigstoreKeys.<authority>[index].  yq creates the mappings and the *)
(* sequence on the path when they are missing (null), pads a sequence with *)
(* nulls up to the index, keeps what it does not assign, and leaves the    *)
(* file alone when the path runs into a value of another type.  A mapping  *)
(* is a mapping to yq whatever its keys.  Errors are not reported.         *)
(***************************************************************************)
\* the mapping at a step of the path, created when missing
YqMapping(x) == IF x.t = "null" THEN EmptyMap ELSE x
YqTraversable(x) == x.t = "null" \/ IsMapping(x)

YqPadList(l, index) ==
    IF Len(l) <= index THEN l \o [j \in 1..(index + 1 - Len(l)) |-> Null] ELSE l

YqUpdateYAML(file, authority, index, organization, commonName, uri, certChain) ==
    IF ~Exists(file) \/ ~YqTraversable(file.tree) THEN file
    ELSE
    LET root == YqMapping(file.tree)
        spec == Get(root, "spec")
    IN  IF ~YqTraversable(spec) THEN file
        ELSE
        LET sigstoreKeys == Get(YqMapping(spec), "sigstoreKeys")
        IN  IF ~YqTraversable(sigstoreKeys) THEN file
            ELSE
            LET old == Get(YqMapping(sigstoreKeys), authority)
            IN  IF ~(old.t = "null" \/ IsList(old)) THEN file
                ELSE
                LET list == YqPadList(IF IsList(old) THEN old.v ELSE <<>>, index)
                    entry == list[index + 1]
                IN  IF ~YqTraversable(entry) THEN file
                    ELSE
                    LET newEntry == SetFields(YqMapping(entry), organization,
                                              commonName, uri, certChain)
                        newList == [list EXCEPT ![index + 1] = newEntry]
                        newKeys == Put(YqMapping(sigstoreKeys), authority, List(newList))
                        newSpec == Put(YqMapping(spec), "sigstoreKeys", newKeys)
                    IN  [file EXCEPT !.tree = Put(root, "spec", newSpec)]

(***************************************************************************)
(* The certificate transcoder: the inner loop over one chain.              *)
(***************************************************************************)
\* convertToPEM: the PEM text, or an error.  The external variant pipes the
\* bytes through `openssl x509 -inform DER -outform PEM`, which is taken to
\* accept what ParseCertificate accepts and to emit the same PEM block.
ConvertToPEM(cert) ==
    IF ParseCertificate(cert)
    THEN [ok |-> TRUE, pem |-> PemEncode(cert)]
    ELSE [ok |-> FALSE, pem |-> <<>>]

\* one iteration of the loop over certificates: what is appended to pemData
PemOfCertificate(cert) ==
    IF ~IsStringMap(cert) THEN <<>>
    ELSE IF ~IsString(Get(cert, "rawBytes")) THEN <<>>
    ELSE LET decoded == DecodeString(Get(cert, "rawBytes").v)
         IN  IF ~decoded.ok THEN <<>>
             ELSE IF ~ConvertToPEM(decoded.bytes).ok THEN <<>>
             ELSE ConvertToPEM(decoded.bytes).pem

\* a slip: break instead of continue, the first bad certificate ends the chain
RECURSIVE ChainLoopBreak(_, _, _)
ChainLoopBreak(certificates, j, pemData) ==
    IF j >= Len(certificates) THEN pemData
    ELSE IF PemOfCertificate(certificates[j + 1]) = <<>> THEN pemData
    ELSE ChainLoopBreak(certificates, j + 1,
                        pemData \o PemOfCertificate(certificates[j + 1]))

\* for j := 0; j < len(certificates); j++ { ... pemData.WriteString(pem) }
RECURSIVE ChainLoop(_, _, _)
ChainLoop(certificates, j, pemData) ==
    IF j >= Len(certificates) THEN pemData
    ELSE ChainLoop(certificates, j + 1, pemData \o PemOfCertificate(certificates[j + 1]))

\* certChain := base64.StdEncoding.EncodeToString([]byte(pemData.String()))
CertChainOf(certificates) == EncodeToString(ChainLoop(certificates, 0, <<>>))

\* a slip: a certChain without certificates is read as an empty chain
CertificatesOfLax(authorityData) ==
    IF ~IsStringMap(authorityData) THEN [ok |-> FALSE, certificates |-> <<>>]
    ELSE IF ~IsStringMap(Get(authorityData, "certChain"))
         THEN [ok |-> FALSE, certificates |-> <<>>]
    ELSE IF ~IsList(Get(Get(authorityData, "certChain"), "certificates"))
         THEN [ok |-> TRUE, certificates |-> <<>>]
    ELSE [ok |-> TRUE,
          certificates |-> Get(Get(authorityData, "certChain"), "certificates").v]

\* the checks of an authority entry before its chain is read: the list of
\* certificates, or none when the entry is skipped
CertificatesOf(authorityData) ==
    IF ~IsStringMap(authorityData) THEN [ok |-> FALSE, certificates |-> <<>>]
    ELSE IF ~IsStringMap(Get(authorityData, "certChain"))
         THEN [ok |-> FALSE, certificates |-> <<>>]
    ELSE IF ~IsList(Get(Get(authorityData, "certChain"), "certificates"))
         THEN [ok |-> FALSE, certificates |-> <<>>]
    ELSE [ok |-> TRUE,
          certificates |-> Get(Get(authorityData, "certChain"), "certificates").v]

(***************************************************************************)
(* The program.                                                            *)
(***************************************************************************)
Variants == {"inprocess", "external"}
Kinds == << "certificateAuthorities", "timestampAuthorities" >>

\* the values of --organization, --commonName and --uri: "GH", "CN", "http"
OrgFlag == << 71, 72 >>
CommonNameFlag == << 67, 78 >>
UriFlag == << 104, 116, 116, 112 >>

VARIABLES
    templateFlag,     \* --template-filepath / --template-filename: "unset", "empty", "given"
    trustedRootFlag,  \* --trusted-root-path: "unset", "empty", "given"
    templateFile,     \* the file at the template path
    trustedRootFile,  \* the file at the trusted-root path
    originalOutput,   \* the file at the output path before the run
    outputWritable,   \* whether the output path can be created, truncated, written
    pc,               \* per variant: where main is
    outputFile,       \* per variant: the file at the output path
    tempFile,         \* per variant: the temporary file (external variant only)
    trustedRoot,      \* per variant: the decoded trusted_root.json
    kind,             \* per variant: position of the outer loop (1, 2)
    i,                \* per variant: position of the loop over authorities
    calls,            \* per variant: the calls of updateYAML made so far
    exitCode          \* per variant: "running", "zero", "nonzero"

env == << templateFlag, trustedRootFlag, templateFile, trustedRootFile,
          originalOutput, outputWritable >>
vars == << templateFlag, trustedRootFlag, templateFile, trustedRootFile,
           originalOutput, outputWritable,
           pc, outputFile, tempFile, trustedRoot, kind, i, calls, exitCode >>

Final == {"done", "fatal"}

\* the variants run one after the other
Turn(v) == v = "inprocess" \/ pc["inprocess"] \in Final

\* a slip: the external variant given the in-process default
DefaultTemplateFilePathShared(v) == "trustroot.template.yaml"

\* flag.String defaults
DefaultTemplateFilePath(v) == IF v = "inprocess" THEN "trustroot.template.yaml" ELSE ""
DefaultTrustedRootPath(v) ==
    IF v = "inprocess" THEN "~/.sigstore/root/targets/trusted_root.json" ELSE ""

\* *templateFilePath and *trustedRootPath after flag.Parse()
TemplateFilePath(v) ==
    IF templateFlag = "unset" THEN DefaultTemplateFilePath(v)
    ELSE IF templateFlag = "empty" THEN "" ELSE "given.yaml"
TrustedRootPath(v) ==
    IF trustedRootFlag = "unset" THEN DefaultTrustedRootPath(v)
    ELSE IF trustedRootFlag = "empty" THEN "" ELSE "given.json"

\* log.Fatalf: the process exits at once, deferred calls do not run
Fatal(v) ==
    /\ pc' = [pc EXCEPT ![v] = "fatal"]
    /\ exitCode' = [exitCode EXCEPT ![v] = "nonzero"]

\* flag.Parse() and the validation of the required inputs
ParseFlags(v) ==
    /\ Turn(v)
    /\ pc[v] = "flags"
    /\ IF TemplateFilePath(v) = "" \/ TrustedRootPath(v) = ""
       THEN Fatal(v)
       ELSE /\ pc' = [pc EXCEPT ![v] = IF v = "inprocess" THEN "truncate" ELSE "load"]
            /\ UNCHANGED exitCode
    /\ UNCHANGED << env, outputFile, tempFile, trustedRoot, kind, i, calls >>

\* an empty file: no text at all
EmptyFile == File(FALSE, Null)

\* in-process: os.Truncate(output, 0), os.Create when it does not exist
TruncateOutput ==
    /\ pc["inprocess"] = "truncate"
    /\ IF ~outputWritable
       THEN Fatal("inprocess") /\ UNCHANGED outputFile
       ELSE /\ outputFile' = [outputFile EXCEPT !["inprocess"] = EmptyFile]
            /\ pc' = [pc EXCEPT !["inprocess"] = "copy"]
            /\ UNCHANGED exitCode
    /\ UNCHANGED << env, tempFile, trustedRoot, kind, i, calls >>

\* a slip: nothing is written to dst
CopyFileKeepsDst(src, dst) == dst

\* copyFile(src, dst): the result, or dst as it was when src cannot be read
CopyFile(src, dst) == IF Exists(src) THEN src ELSE dst

\* in-process: copyFile(template, output)
CopyTemplate ==
    /\ pc["inprocess"] = "copy"
    /\ IF ~Exists(templateFile)
       THEN Fatal("inprocess") /\ UNCHANGED outputFile
       ELSE /\ outputFile' = [outputFile EXCEPT
                                 !["inprocess"] = CopyFile(templateFile, @)]
            /\ pc' = [pc EXCEPT !["inprocess"] = "load"]
            /\ UNCHANGED exitCode
    /\ UNCHANGED << env, tempFile, trustedRoot, kind, i, calls >>

\* json.NewDecoder(file).Decode(&trustedRoot): null leaves the nil map, an
\* object fills it, anything else is an error
DecodeJSON(f) ==
    IF f.tree.t = "null" THEN [ok |-> TRUE, root |-> EmptyMap]
    ELSE IF f.tree.t = "smap" THEN [ok |-> TRUE, root |-> f.tree]
    ELSE [ok |-> FALSE, root |-> EmptyMap]

\* os.Open(trustedRootPath) and the decoding of the JSON document
LoadTrustedRoot(v) ==
    /\ Turn(v)
    /\ pc[v] = "load"
    /\ IF ~Exists(trustedRootFile)
       THEN Fatal(v) /\ UNCHANGED << trustedRoot, kind >>
       ELSE IF ~DecodeJSON(trustedRootFile).ok
       THEN Fatal(v) /\ UNCHANGED << trustedRoot, kind >>
       ELSE /\ trustedRoot' = [trustedRoot EXCEPT ![v] = DecodeJSON(trustedRootFile).root]
            /\ pc' = [pc EXCEPT ![v] = IF v = "inprocess" THEN "kind" ELSE "mktemp"]
            /\ kind' = [kind EXCEPT ![v] = 1]
            /\ UNCHANGED exitCode
    /\ UNCHANGED << env, outputFile, tempFile, i, calls >>

\* external: os.CreateTemp and copyFile(template, temporary file)
CreateTemp ==
    /\ pc["inprocess"] \in Final
    /\ pc["external"] = "mktemp"
    /\ tempFile' = [tempFile EXCEPT !["external"] = CopyFile(templateFile, EmptyFile)]
    /\ IF ~Exists(templateFile)
       THEN Fatal("external")
       ELSE /\ pc' = [pc EXCEPT !["external"] = "kind"]
            /\ UNCHANGED exitCode
    /\ UNCHANGED << env, outputFile, trustedRoot, kind, i, calls >>

\* the file the patcher works on: the output file itself, or the temporary file
PatchedFile(v) == IF v = "inprocess" THEN outputFile[v] ELSE tempFile[v]

\* trustedRoot[authority] of the current kind
Authorities(v) == Get(trustedRoot[v], Kinds[kind[v]])

\* the outer loop moves on to the next kind, or ends
NextKind(v) ==
    IF kind[v] >= Len(Kinds)
    THEN pc' = [pc EXCEPT ![v] = "finish"] /\ UNCHANGED kind
    ELSE pc' = [pc EXCEPT ![v] = "kind"] /\ kind' = [kind EXCEPT ![v] = @ + 1]

\* for _, authority := range {...}: the type check of trustedRoot[authority]
EnterKind(v) ==
    /\ Turn(v)
    /\ pc[v] = "kind"
    /\ IF ~IsList(Authorities(v))
       THEN NextKind(v) /\ UNCHANGED i
       ELSE IF Len(Authorities(v).v) = 0
       THEN NextKind(v) /\ UNCHANGED i
       ELSE /\ pc' = [pc EXCEPT ![v] = "entry"]
            /\ i' = [i EXCEPT ![v] = 0]
            /\ UNCHANGED kind
    /\ UNCHANGED << env, outputFile, tempFile, trustedRoot, calls, exitCode >>

\* the record of one call of updateYAML
Call(authority, index, certChain, before, after, err) ==
    [authority |-> authority, index |-> index, certChain |-> certChain,
     before |-> before, after |-> after, err |-> err]

\* what updateYAML does to its file and whether main sees an error: the
\* external variant's updateYAML returns nothing
RunUpdateYAML(v, file, authority, index, certChain) ==
    IF v = "inprocess"
    THEN UpdateYAML(file, authority, index, OrgFlag, CommonNameFlag, UriFlag, certChain)
    ELSE [err |-> FALSE,
          file |-> YqUpdateYAML(file, authority, index, OrgFlag, CommonNameFlag,
                                UriFlag, certChain)]

\* one iteration of the loop over the authorities of a kind
ProcessEntry(v) ==
    /\ Turn(v)
    /\ pc[v] = "entry"
    /\ LET authorityData == Authorities(v).v[i[v] + 1]
           chain == CertificatesOf(authorityData)
           certChain == CertChainOf(chain.certificates)
           res == RunUpdateYAML(v, PatchedFile(v), Kinds[kind[v]], i[v], certChain)
       IN  IF ~chain.ok
           THEN UNCHANGED << outputFile, tempFile, calls >>
           ELSE /\ calls' = [calls EXCEPT ![v] =
                        Append(@, Call(Kinds[kind[v]], i[v], certChain,
                                       PatchedFile(v), res.file, res.err))]
                /\ IF v = "inprocess"
                   THEN /\ outputFile' = [outputFile EXCEPT ![v] = res.file]
                        /\ UNCHANGED tempFile
                   ELSE /\ tempFile' = [tempFile EXCEPT ![v] = res.file]
                        /\ UNCHANGED outputFile
    /\ IF i[v] + 1 < Len(Authorities(v).v)
       THEN i' = [i EXCEPT ![v] = @ + 1] /\ UNCHANGED << pc, kind >>
       ELSE NextKind(v) /\ UNCHANGED i
    /\ UNCHANGED << env, trustedRoot, exitCode >>

\* the end of main.  In-process: the last log line.  External: the temporary
\* file is copied to the output file, and removed by the deferred os.Remove.
Finish(v) ==
    /\ Turn(v)
    /\ pc[v] = "finish"
    /\ IF v = "inprocess"
       THEN /\ pc' = [pc EXCEPT ![v] = "done"]
            /\ exitCode' = [exitCode EXCEPT ![v] = "zero"]
            /\ UNCHANGED << outputFile, tempFile >>
       ELSE IF ~outputWritable
       THEN Fatal(v) /\ UNCHANGED << outputFile, tempFile >>
       ELSE /\ pc' = [pc EXCEPT ![v] = "done"]
            /\ exitCode' = [exitCode EXCEPT ![v] = "zero"]
            /\ outputFile' = [outputFile EXCEPT ![v] = tempFile[v]]
            /\ tempFile' = [tempFile EXCEPT ![v] = NoFile]
    /\ UNCHANGED << env, trustedRoot, kind, i, calls >>

Next ==
    \/ \E v \in Variants : ParseFlags(v)
    \/ TruncateOutput
    \/ CopyTemplate
    \/ \E v \in Variants : LoadTrustedRoot(v)
    \/ CreateTemp
    \/ \E v \in Variants : EnterKind(v)
    \/ \E v \in Variants : ProcessEntry(v)
    \/ \E v \in Variants : Finish(v)

(***************************************************************************)
(* The patcher on its own: updateYAML applied to a document, and once more *)
(* to the result.  calls holds the calls made.                             *)
(***************************************************************************)
\* DER inputs: two that parse (3 and 5 bytes) and one that does not
DerA == << 48, 1, 7 >>
DerB == << 48, 3, 1, 2, 255 >>
DerJunk == << 1, 2, 3, 4 >>

PatcherChains == { <<>>, EncodeToString(PemEncode(DerA)) }

PatcherCall ==
    /\ pc["inprocess"] \in {"patch1", "patch2"}
    /\ \E a \in 1..Len(Kinds), index \in 0..MaxIndex, certChain \in PatcherChains :
          LET res == UpdateYAML(outputFile["inprocess"], Kinds[a], index,
                                OrgFlag, CommonNameFlag, UriFlag, certChain)
          IN  /\ outputFile' = [outputFile EXCEPT !["inprocess"] = res.file]
              /\ calls' = [calls EXCEPT !["inprocess"] =
                              Append(@, Call(Kinds[a], index, certChain,
                                             outputFile["inprocess"], res.file, res.err))]
    /\ pc' = [pc EXCEPT !["inprocess"] = IF @ = "patch1" THEN "patch2" ELSE "patched"]
    /\ UNCHANGED << env, tempFile, trustedRoot, kind, i, exitCode >>

NextPatcher == PatcherCall

(***************************************************************************)
(* Inputs.                                                                 *)
(***************************************************************************)
SeqsUpTo(S, n) == UNION { [1..k -> S] : k \in 0..n }

\* the scalar "x"
SomeStr == Str(<< 120 >>)

\* template documents
TplEmptyKeys == Map([kind |-> SomeStr, spec |-> Map([sigstoreKeys |-> EmptyMap])])
TplNoSpec == Map([kind |-> SomeStr])
TplNoKeys == Map([kind |-> SomeStr, spec |-> Map([other |-> SomeStr])])
TplSpecScalar == Map([spec |-> SomeStr])
TplKeysList == Map([spec |-> Map([sigstoreKeys |-> List(<< SomeStr >>)])])
TplLists ==
    Map([kind |-> SomeStr,
         spec |-> Map([other |-> SomeStr,
                       sigstoreKeys |->
                           Map([ctLogs |-> List(<< SomeStr >>),
                                certificateAuthorities |->
                                    List(<< Map([extra |-> SomeStr, uri |-> SomeStr]),
                                            SomeStr >>),
                                timestampAuthorities |-> SomeStr])])])
TplRootList == List(<< SomeStr >>)
\* an entry with a key that is not a string ("one" stands for the integer 1)
TplGenEntry ==
    Map([spec |-> Map([sigstoreKeys |->
            Map([certificateAuthorities |->
                    List(<< GenMap([one |-> SomeStr, extra |-> SomeStr]) >>)])])])

Templates ==
    { File(FALSE, t) : t \in { TplEmptyKeys, TplNoSpec, TplNoKeys, TplSpecScalar,
                               TplKeysList, TplLists, TplRootList, TplGenEntry,
                               Null, Garbage } }

\* elements of an authority sequence of an output document: null, a scalar,
\* a string-keyed mapping, a mapping with a key that is not a string
ElemShapes ==
    { Null, SomeStr, Map([extra |-> SomeStr, uri |-> SomeStr]),
      GenMap([one |-> SomeStr, extra |-> SomeStr]) }

\* an output document with the given certificateAuthorities sequence
DocWith(list) ==
    Map([kind |-> SomeStr,
         spec |-> Map([other |-> SomeStr,
                       sigstoreKeys |-> Map([ctLogs |-> List(<< SomeStr >>),
                                             certificateAuthorities |-> List(list),
                                             timestampAuthorities |-> SomeStr])])])

PatcherFiles ==
    Templates \cup { File(FALSE, DocWith(l)) : l \in SeqsUpTo(ElemShapes, MaxIndex) }

\* certificates of a chain in trusted_root.json
Cert(der) == Map([rawBytes |-> Str(EncodeToString(der))])
CertShapes ==
    { SomeStr,                                   \* not a mapping
      Map([other |-> SomeStr]),                  \* no rawBytes
      Map([rawBytes |-> Str(<< 33, 33, 33, 33 >>)]),   \* "!!!!": not base64
      Cert(DerJunk),                             \* base64 of bytes that do not parse
      Cert(DerA), Cert(DerB) }

\* a well-formed authority entry
Entry(chain) == Map([uri |-> SomeStr, certChain |-> Map([certificates |-> List(chain)])])

\* authority entries: not a mapping, no certChain, certChain without
\* certificates, well-formed
EntryShapes ==
    { SomeStr, Map([uri |-> SomeStr]), Map([certChain |-> EmptyMap]),
      Entry(<< Cert(DerA) >>) }

\* the value of an authority key of trusted_root.json: a sequence of up to n
\* entries, or something that is not a sequence
AuthorityValues(n) == { SomeStr } \cup { List(l) : l \in SeqsUpTo(EntryShapes, n) }

TrustedRootDoc(ca, tsa) ==
    Map([mediaType |-> SomeStr, certificateAuthorities |-> ca, timestampAuthorities |-> tsa])

JsonFile(tree) == File(FALSE, tree)

\* a few trusted roots for the runs that vary the environment
SmallTrustedRoots ==
    { TrustedRootDoc(List(<< Entry(<< Cert(DerA), Cert(DerB) >>) >>), List(<< Entry(<<>>) >>)),
      TrustedRootDoc(List(<< Entry(<< Cert(DerA) >>), Entry(<< Cert(DerJunk) >>) >>),
                     List(<< Entry(<< Cert(DerB) >>) >>)),
      TrustedRootDoc(List(<< SomeStr, Entry(<< Cert(DerA) >>) >>), SomeStr),
      Map([mediaType |-> SomeStr]),
      Null }

\* the file at the output path before the run
OldOutput == File(FALSE, Map([old |-> SomeStr]))

\* both variants at the start of main
InitRun(first) ==
    /\ pc = [v \in Variants |-> first]
    /\ outputFile = [v \in Variants |-> originalOutput]
    /\ tempFile = [v \in Variants |-> NoFile]
    /\ trustedRoot = [v \in Variants |-> EmptyMap]
    /\ kind = [v \in Variants |-> 1]
    /\ i = [v \in Variants |-> 0]
    /\ calls = [v \in Variants |-> <<>>]
    /\ exitCode = [v \in Variants |-> "running"]

\* runs over every environment: flags, files present or not, writable or not
Init ==
    /\ templateFlag \in {"unset", "empty", "given"}
    /\ trustedRootFlag \in {"unset", "empty", "given"}
    /\ templateFile \in {NoFile} \cup Templates
    /\ trustedRootFile \in {NoFile, JsonFile(Garbage), JsonFile(List(<<>>))}
                             \cup { JsonFile(d) : d \in SmallTrustedRoots }
    /\ originalOutput \in {NoFile, OldOutput}
    /\ outputWritable \in BOOLEAN
    /\ InitRun("flags")

\* a sound environment
GoodEnv ==
    /\ templateFlag = "given"
    /\ trustedRootFlag = "given"
    /\ originalOutput = NoFile
    /\ outputWritable = TRUE

\* runs over every trusted root of up to MaxCA and MaxTSA entries
InitEntries ==
    /\ GoodEnv
    /\ templateFile \in { File(FALSE, TplEmptyKeys), File(FALSE, TplLists) }
    /\ trustedRootFile \in { JsonFile(TrustedRootDoc(ca, tsa)) :
                                ca \in AuthorityValues(MaxCA), tsa \in AuthorityValues(MaxTSA) }
    /\ InitRun("flags")

\* runs over every certificate chain of up to MaxChain certificates
InitChains ==
    /\ GoodEnv
    /\ templateFile = File(FALSE, TplEmptyKeys)
    /\ trustedRootFile \in { JsonFile(TrustedRootDoc(List(<< Entry(c) >>), List(<< Entry(t) >>))) :
                                c \in SeqsUpTo(CertShapes, MaxChain),
                                t \in { <<>>, << Cert(DerB) >> } }
    /\ InitRun("flags")

\* the patcher on every document of PatcherFiles
InitPatcher ==
    /\ templateFlag = "given"
    /\ trustedRootFlag = "given"
    /\ templateFile = NoFile
    /\ trustedRootFile = NoFile
    /\ originalOutput \in PatcherFiles
    /\ outputWritable = TRUE
    /\ InitRun("patch1")

Spec == Init /\ [][Next]_vars
SpecEntries == InitEntries /\ [][Next]_vars
SpecChains == InitChains /\ [][Next]_vars
SpecPatcher == InitPatcher /\ [][NextPatcher]_vars

(***************************************************************************)
(* Vocabulary of the properties.                                           *)
(***************************************************************************)
IP == "inprocess"
EX == "external"

KindIndex(authority) == IF authority = Kinds[1] THEN 1 ELSE 2

\* spec.sigstoreKeys of a document that has it
KeysOf(f) == Get(Get(f.tree, "spec"), "sigstoreKeys")
\* the value of an authority key of such a document
ListOf(f, authority) == Get(KeysOf(f), authority)

\* the document has a spec mapping holding a sigstoreKeys mapping
HasKeys(f) ==
    /\ Exists(f)
    /\ IsMapping(f.tree)
    /\ "spec" \in DOMAIN f.tree.v
    /\ IsMapping(f.tree.v["spec"])
    /\ "sigstoreKeys" \in DOMAIN f.tree.v["spec"].v
    /\ IsMapping(f.tree.v["spec"].v["sigstoreKeys"])

\* an authority entry with a certChain mapping holding a certificates sequence
WellFormedEntry(e) ==
    /\ e.t = "smap"
    /\ "certChain" \in DOMAIN e.v
    /\ e.v["certChain"].t = "smap"
    /\ "certificates" \in DOMAIN e.v["certChain"].v
    /\ e.v["certChain"].v["certificates"].t = "seq"

\* the entries of one kind of a trusted root, as << kind, index, entry >>
EntriesOfKind(root, a) ==
    IF root.t = "smap" /\ Kinds[a] \in DOMAIN root.v /\ root.v[Kinds[a]].t = "seq"
    THEN [j \in 1..Len(root.v[Kinds[a]].v) |-> << a, j - 1, root.v[Kinds[a]].v[j] >>]
    ELSE <<>>

\* the well-formed entries of a trusted root, certificate authorities first
WellFormedEntries(root) ==
    SelectSeq(EntriesOfKind(root, 1) \o EntriesOfKind(root, 2),
              LAMBDA e : WellFormedEntry(e[3]))

\* the << kind, index >> of the calls made
CallTargets(cs) == [n \in 1..Len(cs) |-> << KindIndex(cs[n].authority), cs[n].index >>]

(***************************************************************************)
(* The tree patcher.                                                       *)
(***************************************************************************)
\* the sequence of an authority kind before a call, empty when there is none
OldList(c) ==
    IF IsList(ListOf(c.before, c.authority)) THEN ListOf(c.before, c.authority).v ELSE <<>>
NewList(c) == ListOf(c.after, c.authority).v

\* C1 (growing): a successful patch at index k of an existing sequence of
\* length m < k+1 leaves it with length exactly k+1, the elements m..k-1
\* empty mappings and the elements 0..m-1 as they were.
C1_Growing ==
    \A n \in 1..Len(calls[IP]) :
        LET c == calls[IP][n]
            k == c.index
        IN  (~c.err /\ IsList(ListOf(c.before, c.authority)) /\ Len(OldList(c)) < k + 1)
            => /\ IsList(ListOf(c.after, c.authority))
               /\ Len(NewList(c)) = k + 1
               /\ \A j \in (Len(OldList(c)) + 1)..k : NewList(c)[j] = EmptyMap
               /\ \A j \in 1..Len(OldList(c)) : NewList(c)[j] = OldList(c)[j]

\* a patch that grew a non-empty sequence by more than one element
C1_Witness ==
    \E n \in 1..Len(calls[IP]) :
        LET c == calls[IP][n]
        IN  /\ ~c.err
            /\ IsList(ListOf(c.before, c.authority))
            /\ Len(OldList(c)) >= 1
            /\ c.index >= Len(OldList(c)) + 1
            /\ Len(NewList(c)) = c.index + 1

SameArguments(c, d) ==
    c.authority = d.authority /\ c.index = d.index /\ c.certChain = d.certChain

\* C6 (idempotence): a second call with the arguments of a successful first
\* call succeeds and leaves the document tree of the first call.
C6_Idempotent ==
    \A n \in 1..(Len(calls[IP]) - 1) :
        LET c == calls[IP][n]
            d == calls[IP][n + 1]
        IN  (~c.err /\ SameArguments(c, d))
            => ~d.err /\ d.after.tree = c.after.tree

\* a repeated call whose first call created the sequence and changed the tree
C6_Witness ==
    \E n \in 1..(Len(calls[IP]) - 1) :
        LET c == calls[IP][n]
            d == calls[IP][n + 1]
        IN  /\ ~c.err /\ SameArguments(c, d)
            /\ ~IsList(ListOf(c.before, c.authority))
            /\ c.index >= 1
            /\ c.after.tree # c.before.tree
            /\ ~d.err

PatchedFields == {"subject", "uri", "certChain"}

\* everything but the patched element and the appended elements is kept
FrameOutside(c) ==
    /\ DOMAIN c.after.tree.v = DOMAIN c.before.tree.v
    /\ \A key \in DOMAIN c.before.tree.v \ {"spec"} :
          c.after.tree.v[key] = c.before.tree.v[key]
    /\ DOMAIN c.after.tree.v["spec"].v = DOMAIN c.before.tree.v["spec"].v
    /\ \A key \in DOMAIN c.before.tree.v["spec"].v \ {"sigstoreKeys"} :
          c.after.tree.v["spec"].v[key] = c.before.tree.v["spec"].v[key]
    /\ DOMAIN KeysOf(c.after).v = DOMAIN KeysOf(c.before).v \cup {c.authority}
    /\ \A key \in DOMAIN KeysOf(c.before).v \ {c.authority} :
          KeysOf(c.after).v[key] = KeysOf(c.before).v[key]
    /\ Len(NewList(c)) >= Len(OldList(c))
    /\ \A j \in 1..Len(OldList(c)) : j # c.index + 1 => NewList(c)[j] = OldList(c)[j]

\* the three fields hold what was passed
FieldsWritten(c) ==
    LET e == NewList(c)[c.index + 1]
    IN  /\ IsStringMap(e)
        /\ PatchedFields \subseteq DOMAIN e.v
        /\ e.v["subject"] = Map([organization |-> Str(OrgFlag),
                                 commonName |-> Str(CommonNameFlag)])
        /\ e.v["uri"] = Str(UriFlag)
        /\ e.v["certChain"] = Str(c.certChain)

\* the patched element keeps its other keys when Kept(old element) holds,
\* and holds exactly the three fields otherwise
FrameElement(c, Kept(_)) ==
    LET e == NewList(c)[c.index + 1]
    IN  IF c.index + 1 <= Len(OldList(c)) /\ Kept(OldList(c)[c.index + 1])
        THEN LET o == OldList(c)[c.index + 1]
             IN  /\ DOMAIN e.v = DOMAIN o.v \cup PatchedFields
                 /\ \A key \in DOMAIN o.v \ PatchedFields : e.v[key] = o.v[key]
        ELSE DOMAIN e.v = PatchedFields

\* C10 (frame): a successful patch changes only subject, uri and certChain of
\* the element at index (and appends elements); an element that was a
\* mapping keeps its other keys, one that was not is replaced by a mapping
\* of exactly the three fields; everything else in the document is kept.
C10_Frame ==
    \A n \in 1..Len(calls[IP]) :
        LET c == calls[IP][n]
        IN  ~c.err => FrameOutside(c) /\ FieldsWritten(c) /\ FrameElement(c, IsMapping)

\* the frame as the code keeps it: only a mapping whose keys are all strings
\* keeps its other keys
FrameOfStringKeyedMappings ==
    \A n \in 1..Len(calls[IP]) :
        LET c == calls[IP][n]
        IN  ~c.err => FrameOutside(c) /\ FieldsWritten(c) /\ FrameElement(c, IsStringMap)

\* C2 (fresh sequence): when the document has no sequence for the kind, a
\* successful patch at index k creates one of length k+1 whose elements
\* below k are empty mappings.
C2_FreshSequenceOfEmptyMappings ==
    \A n \in 1..Len(calls[IP]) :
        LET c == calls[IP][n]
        IN  (~c.err /\ ~IsList(ListOf(c.before, c.authority)))
            => /\ Len(NewList(c)) = c.index + 1
               /\ \A j \in 1..c.index : NewList(c)[j] = EmptyMap

(***************************************************************************)
(* The certificate transcoder.                                             *)
(***************************************************************************)
\* a certificate that is a mapping with a string rawBytes that decodes and parses
ValidCertificate(cert) ==
    /\ cert.t = "smap"
    /\ "rawBytes" \in DOMAIN cert.v
    /\ cert.v["rawBytes"].t = "str"
    /\ DecodeString(cert.v["rawBytes"].v).ok
    /\ ParseCertificate(DecodeString(cert.v["rawBytes"].v).bytes)

RECURSIVE Concat(_)
Concat(texts) == IF texts = <<>> THEN <<>> ELSE Head(texts) \o Concat(Tail(texts))

\* the PEM blocks of the valid certificates of a chain, in chain order
ExpectedPem(chain) ==
    LET valid == SelectSeq(chain, ValidCertificate)
    IN  Concat([n \in 1..Len(valid) |->
                   PemEncode(DecodeString(valid[n].v["rawBytes"].v).bytes)])

\* the chain of the entry a call was made for
ChainOfCall(c) ==
    trustedRootFile.tree.v[c.authority].v[c.index + 1].v["certChain"].v["certificates"].v

\* C3 (transcoding): the certChain passed to the patcher decodes to the PEM
\* blocks of exactly the valid certificates of the chain, in order, with
\* nothing between them; invalid certificates are skipped; a chain without a
\* valid certificate still yields a patch, with the empty certChain.
C3_Transcoding ==
    /\ \A n \in 1..Len(calls[IP]) :
          LET c == calls[IP][n]
          IN  /\ c.certChain = EncodeToString(ExpectedPem(ChainOfCall(c)))
              /\ DecodeString(c.certChain).ok
              /\ DecodeString(c.certChain).bytes = ExpectedPem(ChainOfCall(c))
              /\ (SelectSeq(ChainOfCall(c), ValidCertificate) = <<>>) => c.certChain = <<>>
    /\ pc[IP] \in {"finish", "done"} =>
          CallTargets(calls[IP]) =
              [n \in 1..Len(WellFormedEntries(trustedRootFile.tree)) |->
                  << WellFormedEntries(trustedRootFile.tree)[n][1],
                     WellFormedEntries(trustedRootFile.tree)[n][2] >>]

\* a chain of an invalid and then a valid certificate, and an empty chain
C3_Witness ==
    /\ pc[IP] = "done"
    /\ Len(calls[IP]) = 2
    /\ Len(ChainOfCall(calls[IP][1])) = 2
    /\ ~ValidCertificate(ChainOfCall(calls[IP][1])[1])
    /\ ValidCertificate(ChainOfCall(calls[IP][1])[2])
    /\ calls[IP][1].certChain # <<>>
    /\ ChainOfCall(calls[IP][2]) = <<>>
    /\ calls[IP][2].certChain = <<>>

(***************************************************************************)
(* The main loop.                                                          *)
(***************************************************************************)
ExpectedTargets ==
    [n \in 1..Len(WellFormedEntries(trustedRootFile.tree)) |->
        << WellFormedEntries(trustedRootFile.tree)[n][1],
           WellFormedEntries(trustedRootFile.tree)[n][2] >>]

\* the entry of the trusted root at a call target
EntryAt(target) == trustedRootFile.tree.v[Kinds[target[1]]].v[target[2] + 1]

\* the malformed entries of the trusted root, as << kind, index, entry >>
MalformedEntries ==
    SelectSeq(EntriesOfKind(trustedRootFile.tree, 1) \o EntriesOfKind(trustedRootFile.tree, 2),
              LAMBDA e : ~WellFormedEntry(e[3]))

\* the element at a position of an authority sequence is not a written
\* entry: it is absent, a placeholder, or what the template held there
NotWritten(f, e) ==
    (HasKeys(f) /\ IsList(ListOf(f, Kinds[e[1]])) /\ e[2] + 1 <= Len(ListOf(f, Kinds[e[1]]).v))
    => \/ ListOf(f, Kinds[e[1]]).v[e[2] + 1] \in {Null, EmptyMap}
       \/ /\ HasKeys(templateFile)
          /\ IsList(ListOf(templateFile, Kinds[e[1]]))
          /\ e[2] + 1 <= Len(ListOf(templateFile, Kinds[e[1]]).v)
          /\ ListOf(f, Kinds[e[1]]).v[e[2] + 1] = ListOf(templateFile, Kinds[e[1]]).v[e[2] + 1]

\* what holds of the calls and of the output at every point of a run
CallsAreTheWellFormedEntries ==
    \A v \in Variants :
        /\ \A n \in 1..Len(calls[v]) : WellFormedEntry(EntryAt(CallTargets(calls[v])[n]))
        /\ pc[v] \in {"finish", "done"} => CallTargets(calls[v]) = ExpectedTargets
        /\ pc[v] # "fatal"
        /\ pc[v] = "done" =>
              /\ exitCode[v] = "zero"
              /\ \A n \in 1..Len(MalformedEntries) : NotWritten(outputFile[v], MalformedEntries[n])

\* where main is: the phase, the kind and the entry of the loop
Phase(p) ==
    CASE p = "flags" -> 1 [] p = "truncate" -> 2 [] p = "copy" -> 3 [] p = "load" -> 4
      [] p = "mktemp" -> 5 [] p \in {"kind", "entry"} -> 6 [] p = "finish" -> 7
      [] p \in Final -> 8
Position(p, k, e) == << Phase(p), k, IF p = "entry" THEN e + 1 ELSE 0 >>
Before(s, t) ==
    \/ s[1] < t[1]
    \/ s[1] = t[1] /\ s[2] < t[2]
    \/ s[1] = t[1] /\ s[2] = t[2] /\ s[3] < t[3]

\* a step of a run moves it forward: no entry is visited twice, no kind is
\* taken up again, and the loop cannot go on for ever
Advances(v) ==
    \/ << pc[v], kind[v], i[v] >> = << pc'[v], kind'[v], i'[v] >>
    \/ Before(Position(pc[v], kind[v], i[v]), Position(pc'[v], kind'[v], i'[v]))

\* C4 (malformed entries): an entry that is not a mapping, or lacks a
\* certChain mapping or a certificates sequence, gets no patcher call and is
\* not written; every well-formed entry of both kinds is still patched, in
\* order; the loop only moves forward, no run ends fatally, and a finished
\* run has exit code zero.
C4_MalformedEntriesSkipped ==
    /\ []CallsAreTheWellFormedEntries
    /\ [][\A v \in Variants : Advances(v)]_vars

\* both runs done on a trusted root whose first certificate authority is
\* malformed and followed by a well-formed one, with a well-formed timestamp
\* authority
C4_Witness ==
    /\ pc[IP] = "done" /\ pc[EX] = "done"
    /\ Len(EntriesOfKind(trustedRootFile.tree, 1)) = 2
    /\ ~WellFormedEntry(EntriesOfKind(trustedRootFile.tree, 1)[1][3])
    /\ CallTargets(calls[IP]) = << << 1, 1 >>, << 2, 0 >> >>
    /\ CallTargets(calls[EX]) = << << 1, 1 >>, << 2, 0 >> >>

\* C7 (no spec.sigstoreKeys): a patcher call on a document without a spec
\* mapping or without a sigstoreKeys mapping in it returns an error and
\* leaves the file as it is; the loop goes on to every later entry, the run
\* never ends non-zero after a call, and a finished run has exit code zero.
C7_MissingSectionIsNotFatal ==
    /\ \A n \in 1..Len(calls[IP]) :
          ~HasKeys(calls[IP][n].before)
              => calls[IP][n].err /\ calls[IP][n].after = calls[IP][n].before
    /\ (Exists(templateFile) /\ ~HasKeys(templateFile)) =>
          /\ pc[IP] \in {"kind", "entry", "finish", "done"} => outputFile[IP] = templateFile
          /\ pc[IP] \in {"finish", "done"} => CallTargets(calls[IP]) = ExpectedTargets
          /\ pc[IP] = "done" => exitCode[IP] = "zero"
          /\ exitCode[IP] = "nonzero" => calls[IP] = <<>>

\* a finished run on a template without the section, after two failed calls
C7_Witness ==
    /\ pc[IP] = "done"
    /\ exitCode[IP] = "zero"
    /\ Exists(templateFile) /\ IsMapping(templateFile.tree) /\ ~HasKeys(templateFile)
    /\ Len(calls[IP]) >= 2
    /\ calls[IP][1].err /\ calls[IP][2].err
    /\ outputFile[IP] = templateFile

\* << kind, index >> pairs in the order of the main loop
Precedes(s, t) == s[1] < t[1] \/ (s[1] = t[1] /\ s[2] < t[2])

\* C8 (ordering): the template is copied to the patched file before the
\* first patcher call, a failed copy means no patcher call at all, and the
\* calls come one at a time, certificate authorities in increasing index
\* order and then timestamp authorities in increasing index order.
C8_Ordering ==
    \A v \in Variants :
        /\ ~Exists(templateFile) => calls[v] = <<>>
        /\ (pc[v] \in {"kind", "entry"} /\ calls[v] = <<>>) => PatchedFile(v) = templateFile
        /\ calls[v] # <<>> => calls[v][1].before = templateFile
        /\ \A n \in 1..(Len(calls[v]) - 1) :
              /\ calls[v][n + 1].before = calls[v][n].after
              /\ Precedes(CallTargets(calls[v])[n], CallTargets(calls[v])[n + 1])

\* three calls of the in-process variant: two certificate authorities, then
\* a timestamp authority
C8_Witness ==
    /\ CallTargets(calls[IP]) = << << 1, 0 >>, << 1, 1 >>, << 2, 0 >> >>
    /\ calls[IP][1].before = templateFile
    /\ ~calls[IP][3].err

TreeOfFile(f) == IF Exists(f) THEN f.tree ELSE NoFile

\* C9 (equivalence of the variants): given the same template, the same
\* trusted root path and the same output path, both variants end with the
\* same exit outcome and the same output document tree.
C9_VariantsEquivalent ==
    (/\ templateFlag = "given" /\ trustedRootFlag = "given" /\ Exists(templateFile)
     /\ pc[IP] \in Final /\ pc[EX] \in Final) =>
        /\ exitCode[IP] = exitCode[EX]
        /\ TreeOfFile(outputFile[IP]) = TreeOfFile(outputFile[EX])

=============================================================================
